---- MODULE Spec2Model ----
\* chorse-go: the account API, its JWT access gate and the Discord OAuth
\* callback, modelled from api.go / storage.go (src/unnamed/part_001 and
\* part_000) as a state machine over the two database tables and the
\* in-flight requests.
EXTENDS Integers, Sequences, FiniteSets, Bags, TLC

VARIABLES
    account,        \* table account: set of rows (id is the primary key)
    account_id_seq, \* the serial behind account.id: last value handed out
    assigned,       \* account numbers of every account stored so far
    stdout,         \* tokens printed by handleCreateAccount (fmt.Printf)
    created,        \* response of the latest POST /account, or NoResponse
    req,            \* the request to /account/{id} in flight and its outcome
    discord_user,   \* table discord_user: a bag of rows (a heap, no key)
    cb,             \* the /auth/callback requests, one per slot
    logins,         \* number of /login redirects served
    accepted        \* number of callbacks whose state passed the check

vars == <<account, account_id_seq, assigned, stdout, created, req,
          discord_user, cb, logins, accepted>>

accountVars == <<account, account_id_seq, assigned, stdout, created, req>>
oauthVars == <<discord_user, cb, logins, accepted>>

-----------------------------------------------------------------------------
\* Bounds of the model.

MaxAccounts == 2      \* POST /account requests that reach the store
MaxNumber == 3        \* account numbers NewAccount draws from: 1..MaxNumber
MaxCallbacks == 2     \* /auth/callback requests, all of which may overlap
MaxLogins == 1        \* /login requests served in one behaviour

\* HTTP status codes (net/http).
StatusOK == 200
StatusBadRequest == 400
StatusForbidden == 403
StatusNotFound == 404
StatusInternalServerError == 500

-----------------------------------------------------------------------------
\* Decimal text, as encoding/json writes a number and strconv reads one.

DigitChars == <<"0", "1", "2", "3", "4", "5", "6", "7", "8", "9">>

DigitValue(c) == (CHOOSE i \in 1..10 : DigitChars[i] = c) - 1

IsDigit(c) == \E i \in 1..10 : DigitChars[i] = c

RECURSIVE FormatInt(_)
FormatInt(n) ==
    IF n < 10 THEN <<DigitChars[n + 1]>>
    ELSE Append(FormatInt(n \div 10), DigitChars[(n % 10) + 1])

RECURSIVE ParseDigits(_)
ParseDigits(s) ==
    IF s = <<>> THEN 0
    ELSE 10 * ParseDigits(SubSeq(s, 1, Len(s) - 1)) + DigitValue(s[Len(s)])

\* strconv.Atoi on a path segment: an error unless every character is a digit.
Atoi(s) ==
    IF s # <<>> /\ \A i \in 1..Len(s) : IsDigit(s[i])
    THEN [err |-> FALSE, value |-> ParseDigits(s)]
    ELSE [err |-> TRUE, value |-> 0]

-----------------------------------------------------------------------------
\* Token Service: createJwt / validateJwt over golang-jwt.

JWT_SECRET == "s3cret"                 \* os.Getenv("JWT_SECRET")
Secrets == {JWT_SECRET, "other"}       \* keys a token may have been signed with
Algs == {"HS256", "HS384", "RS256", "none"}
SigningMethodHMAC == {"HS256", "HS384", "HS512"}

ExpiresAt == 15000

\* The signature over header and claims: an ideal MAC, equal only when the
\* algorithm, the key and the signed content are all equal.
Sign(alg, key, claims) == <<alg, key, claims>>

MapClaims(expiresAt, number) ==
    [expiresAt |-> FormatInt(expiresAt), accountNumber |-> FormatInt(number)]

NoClaims == [expiresAt |-> <<>>, accountNumber |-> <<>>]

\* The header value when the request carries no x-jwt-token, and a value
\* that is not three dot-separated segments.
EmptyToken == [parts |-> 0, alg |-> "", claims |-> NoClaims, sig |-> <<>>]
GarbageToken == [parts |-> 1, alg |-> "", claims |-> NoClaims, sig |-> <<>>]

createJwt_UsesId(acc) ==
    [err |-> FALSE,
     token |-> [parts |-> 3, alg |-> "HS256",
                claims |-> MapClaims(ExpiresAt, acc.ID),
                sig |-> Sign("HS256", JWT_SECRET, MapClaims(ExpiresAt, acc.ID))]]

createJwt(acc) ==
    [err |-> FALSE,
     token |-> [parts |-> 3, alg |-> "HS256",
                claims |-> MapClaims(ExpiresAt, acc.Number),
                sig |-> Sign("HS256", JWT_SECRET, MapClaims(ExpiresAt, acc.Number))]]

NoToken == [err |-> TRUE, valid |-> FALSE, accountNumber |-> 0]

validateJwt_NoMethodCheck(tokenStr) ==
    IF tokenStr.parts # 3 THEN NoToken
    ELSE IF tokenStr.alg \in SigningMethodHMAC
            /\ tokenStr.sig # Sign(tokenStr.alg, JWT_SECRET, tokenStr.claims)
         THEN NoToken
    ELSE [err |-> FALSE, valid |-> TRUE,
          accountNumber |-> ParseDigits(tokenStr.claims.accountNumber)]

\* jwt.Parse: split into three segments, run the key function (which refuses
\* every method that is not an HMAC one), then check the signature with the
\* key it returned. The claims carry no exp/nbf/iat, so claim validation
\* passes for every token.
validateJwt(tokenStr) ==
    IF tokenStr.parts # 3 THEN NoToken
    ELSE IF tokenStr.alg \notin SigningMethodHMAC THEN NoToken
    ELSE IF tokenStr.sig # Sign(tokenStr.alg, JWT_SECRET, tokenStr.claims)
         THEN NoToken
    ELSE [err |-> FALSE, valid |-> TRUE,
          accountNumber |-> ParseDigits(tokenStr.claims.accountNumber)]

\* Tokens a client can put in the header: none, garbage, the tokens the
\* server printed, and tokens made elsewhere: for each account number one
\* per algorithm and signing key, and one whose claims were altered after
\* signing.
Tampered(claims) == [claims EXCEPT !.expiresAt = FormatInt(ExpiresAt + 1)]

Token(alg, key, number, tampered) ==
    [parts |-> 3, alg |-> alg,
     claims |-> IF tampered THEN Tampered(MapClaims(ExpiresAt, number))
                ELSE MapClaims(ExpiresAt, number),
     sig |-> Sign(alg, key, MapClaims(ExpiresAt, number))]

ForgedTokens ==
    {Token("HS256", k, n, t) : k \in Secrets, n \in 1..MaxNumber, t \in BOOLEAN}
    \cup {Token("HS384", JWT_SECRET, n, FALSE) : n \in 1..MaxNumber}
    \cup {Token("RS256", "rsa-private-key", n, FALSE) : n \in 1..MaxNumber}
    \cup {Token("none", "", n, FALSE) : n \in 1..MaxNumber}

RequestTokens == {EmptyToken, GarbageToken} \cup ForgedTokens \cup stdout

-----------------------------------------------------------------------------
\* Account Directory: the account table behind PostgresStore.

FirstNames == {"Ada"}
LastNames == {"Lovelace"}
Methods == {"GET", "DELETE", "PUT"}

\* Path values of /account/{id}: every id the serial can hand out (each
\* names no row before its account is created and after it is deleted), and
\* one that is not a number.
PathIds == {FormatInt(i) : i \in 1..MaxAccounts} \cup {<<"x">>}

\* NewAccount is defined with the Account type, outside api.go and
\* storage.go; what it must deliver is an account that has no id yet and
\* carries a non-zero account number that no account stored so far was given.
NewAccountNumbers == (1..MaxNumber) \ assigned

NewAccount(firstName, lastName, number) ==
    [ID |-> 0, FirstName |-> firstName, LastName |-> lastName,
     Number |-> number, Balance |-> 0]

CreateAccount_SwapsArgs(acc, dbOk) ==
    IF ~dbOk THEN [err |-> TRUE, dbAccount |-> acc, table |-> account]
    ELSE LET row == [ID |-> account_id_seq + 1, FirstName |-> acc.FirstName,
                     LastName |-> acc.LastName, Number |-> acc.Balance,
                     Balance |-> acc.Number]
         IN [err |-> FALSE, dbAccount |-> row, table |-> account \cup {row}]

\* insert into account(first_name, last_name, balance, number, created_at)
\* ... returning: the row takes the number the caller passes and the next
\* value of the id serial.
CreateAccount(acc, dbOk) ==
    IF ~dbOk THEN [err |-> TRUE, dbAccount |-> acc, table |-> account]
    ELSE LET row == [ID |-> account_id_seq + 1, FirstName |-> acc.FirstName,
                     LastName |-> acc.LastName, Number |-> acc.Number,
                     Balance |-> acc.Balance]
         IN [err |-> FALSE, dbAccount |-> row, table |-> account \cup {row}]

\* delete from account where id = $1
DeleteAccount(id, dbOk) ==
    IF ~dbOk THEN [err |-> TRUE, table |-> account]
    ELSE [err |-> FALSE, table |-> {r \in account : r.ID # id}]

UpdateAccount_Writes(acc) ==
    [err |-> FALSE,
     table |-> {IF r.ID = acc.ID THEN acc ELSE r : r \in account}]

\* UpdateAccount returns nil without touching the database.
UpdateAccount(acc) == [err |-> FALSE, table |-> account]

\* select * from account where id = $1: the row, or no row and no error.
GetAccountById(id, dbOk) ==
    IF ~dbOk THEN [err |-> TRUE, found |-> FALSE, rows |-> {}]
    ELSE [err |-> FALSE, found |-> \E r \in account : r.ID = id,
          rows |-> {r \in account : r.ID = id}]

-----------------------------------------------------------------------------
\* HTTP handlers of the account routes.

ApiError == [Error |-> "invalid token"]
ErrorPage == [html |-> "<h1>Error</h1>"]
NoResponse == [status |-> 0, body |-> [none |-> TRUE]]

\* WriteJson(w, status, v)
WriteJson(status, v) == [status |-> status, body |-> [json |-> v]]

\* makeHttpHandleFunc: a handler that returns an error answers 500.
makeHttpHandleFunc(h) ==
    IF h.err THEN [status |-> StatusInternalServerError, body |-> ErrorPage,
                   table |-> h.table]
    ELSE [status |-> h.status, body |-> h.body, table |-> h.table]

handleGetAccount(id, dbOk) ==
    LET g == GetAccountById(id, dbOk) IN
    IF g.err THEN [err |-> TRUE, status |-> 0, body |-> ErrorPage, table |-> account]
    ELSE IF ~g.found
         THEN [err |-> FALSE, table |-> account] @@ WriteJson(StatusNotFound, {})
    ELSE [err |-> FALSE, table |-> account] @@ WriteJson(StatusOK, g.rows)

handleDeleteAccount(id, dbOk) ==
    LET d == DeleteAccount(id, dbOk) IN
    IF d.err THEN [err |-> TRUE, status |-> 0, body |-> ErrorPage, table |-> account]
    ELSE [err |-> FALSE, table |-> d.table] @@ WriteJson(StatusOK, {})

handleOneAccount(idStr, method, dbOk) ==
    LET id == Atoi(idStr) IN
    IF id.err THEN [err |-> TRUE, status |-> 0, body |-> ErrorPage, table |-> account]
    ELSE IF method = "GET" THEN handleGetAccount(id.value, dbOk)
    ELSE IF method = "DELETE" THEN handleDeleteAccount(id.value, dbOk)
    ELSE [err |-> TRUE, status |-> 0, body |-> ErrorPage, table |-> account]

withJwtAuth_NoReturn(tokenStr, idStr, method, dbOk) ==
    LET t == validateJwt(tokenStr)
        h == makeHttpHandleFunc(handleOneAccount(idStr, method, dbOk))
    IN IF t.err
       THEN WriteJson(StatusForbidden, ApiError)
                @@ [handlerRan |-> TRUE, table |-> h.table]
       ELSE h @@ [handlerRan |-> TRUE]

withJwtAuth_LeaksReason(tokenStr, idStr, method, dbOk) ==
    LET t == validateJwt(tokenStr) IN
    IF t.err
    THEN WriteJson(StatusForbidden,
                   [Error |-> IF tokenStr.parts # 3 THEN "malformed token"
                              ELSE IF tokenStr.alg \notin SigningMethodHMAC
                                   THEN "unexpected signing method"
                              ELSE "signature is invalid"])
             @@ [handlerRan |-> FALSE, table |-> account]
    ELSE makeHttpHandleFunc(handleOneAccount(idStr, method, dbOk))
             @@ [handlerRan |-> TRUE]

withJwtAuth_RevokesDeleted(tokenStr, idStr, method, dbOk) ==
    LET t == validateJwt(tokenStr) IN
    IF t.err \/ ~\E r \in account : r.Number = t.accountNumber
    THEN WriteJson(StatusForbidden, ApiError)
             @@ [handlerRan |-> FALSE, table |-> account]
    ELSE makeHttpHandleFunc(handleOneAccount(idStr, method, dbOk))
             @@ [handlerRan |-> TRUE]

withJwtAuth_MatchesPath(tokenStr, idStr, method, dbOk) ==
    LET t == validateJwt(tokenStr) IN
    IF t.err \/ ~\E r \in account :
                    FormatInt(r.ID) = idStr /\ r.Number = t.accountNumber
    THEN WriteJson(StatusForbidden, ApiError)
             @@ [handlerRan |-> FALSE, table |-> account]
    ELSE makeHttpHandleFunc(handleOneAccount(idStr, method, dbOk))
             @@ [handlerRan |-> TRUE]

\* withJwtAuth(makeHttpHandleFunc(s.handleOneAccount)): the route
\* /account/{id}. The claims of a verified token are only printed.
withJwtAuth(tokenStr, idStr, method, dbOk) ==
    LET t == validateJwt(tokenStr) IN
    IF t.err
    THEN WriteJson(StatusForbidden, ApiError)
             @@ [handlerRan |-> FALSE, table |-> account]
    ELSE makeHttpHandleFunc(handleOneAccount(idStr, method, dbOk))
             @@ [handlerRan |-> TRUE]

\* Readings of the server's clock (time.Now, in the unit of the expiresAt
\* claim) when a request arrives: before and after the expiry the tokens
\* carry.
Times == {ExpiresAt - 1, ExpiresAt + 1}

NoRequest ==
    [pc |-> "idle", token |-> EmptyToken, id |-> <<>>, method |-> "",
     now |-> 0, status |-> 0, body |-> [none |-> TRUE], handlerRan |-> FALSE]

\* A client sends a request to /account/{id}.
RequestArrives ==
    /\ req.pc = "idle"
    /\ \E tokenStr \in RequestTokens, idStr \in PathIds, method \in Methods,
          now \in Times :
        req' = [NoRequest EXCEPT !.pc = "received", !.token = tokenStr,
                                 !.id = idStr, !.method = method,
                                 !.now = now]
    /\ UNCHANGED <<account, account_id_seq, assigned, stdout, created, oauthVars>>

\* The router runs the handler of /account/{id} on the request.
OneAccountRequest ==
    /\ req.pc = "received"
    /\ \E dbOk \in BOOLEAN :
        LET r == withJwtAuth(req.token, req.id, req.method, dbOk) IN
        /\ req' = [req EXCEPT !.pc = "answered", !.status = r.status,
                              !.body = r.body, !.handlerRan = r.handlerRan]
        /\ account' = r.table
    /\ UNCHANGED <<account_id_seq, assigned, stdout, created, oauthVars>>

\* The response is delivered and the request is over.
RequestDone ==
    /\ req.pc = "answered"
    /\ req' = NoRequest
    /\ UNCHANGED <<account, account_id_seq, assigned, stdout, created, oauthVars>>

\* POST /account: handleCreateAccount behind makeHttpHandleFunc. The token
\* is printed on the server's standard output; the response is the row the
\* store returned. The field minted of created keeps the token createJwt
\* returned for this request; it is no part of the response body.
handleCreateAccount ==
    \E bodyOk \in BOOLEAN, firstName \in FirstNames, lastName \in LastNames,
       number \in NewAccountNumbers, dbOk \in BOOLEAN :
        /\ account_id_seq < MaxAccounts
        /\ IF ~bodyOk
           THEN /\ created' = [status |-> StatusInternalServerError,
                               body |-> ErrorPage]
                /\ UNCHANGED <<account, account_id_seq, assigned, stdout>>
           ELSE LET acc == NewAccount(firstName, lastName, number)
                    c == CreateAccount(acc, dbOk)
                    j == createJwt(acc)
                IN /\ assigned' = IF c.err THEN assigned
                                  ELSE assigned \cup {c.dbAccount.Number}
                   /\ IF c.err \/ j.err
                      THEN /\ created' = [status |-> StatusInternalServerError,
                                          body |-> ErrorPage]
                           /\ stdout' = stdout
                      ELSE /\ created' = WriteJson(StatusOK, c.dbAccount)
                                             @@ [minted |-> j.token]
                           /\ stdout' = stdout \cup {j.token}
                   /\ account' = c.table
                   /\ account_id_seq' = IF c.err THEN account_id_seq
                                        ELSE account_id_seq + 1
        /\ UNCHANGED <<req, oauthVars>>

\* GET /account: handleGetAllAccounts reads the table and writes it out.
handleGetAllAccounts ==
    \E dbOk \in BOOLEAN :
        LET resp == IF dbOk THEN WriteJson(StatusOK, account)
                    ELSE [status |-> StatusInternalServerError,
                          body |-> ErrorPage]
        IN resp.status # 0 /\ UNCHANGED vars

\* POST /transfer: handleTransfer decodes the body and returns.
handleTransfer ==
    \E bodyOk \in BOOLEAN :
        LET resp == IF bodyOk THEN [status |-> StatusOK, body |-> [none |-> TRUE]]
                    ELSE [status |-> StatusInternalServerError,
                          body |-> ErrorPage]
        IN resp.status # 0 /\ UNCHANGED vars

\* Storage.UpdateAccount called for a stored account with a changed balance.
StoreUpdateAccount ==
    \E r \in account :
        LET u == UpdateAccount([r EXCEPT !.Balance = r.Balance + 1]) IN
        /\ account' = u.table
        /\ UNCHANGED <<account_id_seq, assigned, stdout, created, req, oauthVars>>

InitAccounts ==
    /\ account = {}
    /\ account_id_seq = 0
    /\ assigned = {}
    /\ stdout = {}
    /\ created = NoResponse
    /\ req = NoRequest

-----------------------------------------------------------------------------
\* OAuth Linking Flow: /login and /auth/callback.

Slots == 1..MaxCallbacks
LoginState == "randomstate"            \* s.auth.AuthCodeURL("randomstate")
StateParams == {LoginState, "forged", ""}
Ids == {"u1", "u2"}
Names == {"ada"}

NoUser == [Id |-> "", GlobalName |-> "", Avatar |-> ""]

\* What the provider may send as the body of GET /users/@me: a profile, or
\* a body json cannot decode into DiscordUser (nothing decoded, or the id
\* decoded before the offending field).
ProfilePayloads ==
    {[malformed |-> FALSE, id |-> i, global_name |-> g, avatar |-> "a.png"] :
        i \in Ids, g \in Names}
    \cup {[malformed |-> TRUE, id |-> i, global_name |-> "", avatar |-> ""] :
        i \in Ids \cup {""}}

\* json.NewDecoder(res.Body).Decode(&user)
Decode(payload) ==
    [err |-> payload.malformed,
     user |-> [Id |-> payload.id, GlobalName |-> payload.global_name,
               Avatar |-> payload.avatar]]

RECURSIVE CountRows(_, _)
CountRows(rows, id) ==
    IF rows = {} THEN 0
    ELSE LET r == CHOOSE x \in rows : TRUE IN
         (IF r.id = id THEN CopiesIn(r, discord_user) ELSE 0)
             + CountRows(rows \ {r}, id)

\* Number of discord_user rows whose id is the given one.
RowsWithId(id) == CountRows(BagToSet(discord_user), id)

\* select 1 from discord_user where id = $1, then Scan() without a
\* destination: ErrNoRows is "absent"; every other error is returned with
\* exists = false. scanErr covers a failing query and a Scan that refuses
\* the one-column row it was given no destination for.
DiscordUserExists(id, scanErr) ==
    IF scanErr THEN [exists |-> FALSE, err |-> TRUE]
    ELSE IF RowsWithId(id) = 0 THEN [exists |-> FALSE, err |-> FALSE]
    ELSE [exists |-> TRUE, err |-> FALSE]

\* insert into discord_user(id, global_name, avatar): the table declares no
\* key and no unique constraint, so only a failing connection refuses it.
CreateDiscordUser(user, dbOk) ==
    IF ~dbOk THEN [err |-> TRUE, table |-> discord_user]
    ELSE [err |-> FALSE,
          table |-> discord_user (+)
              SetToBag({[id |-> user.Id, global_name |-> user.GlobalName,
                         avatar |-> user.Avatar]})]

IdleCallback ==
    [pc |-> "idle", state |-> "", status |-> 0, user |-> NoUser,
     exists |-> FALSE, providerCalls |-> 0, storeOps |-> 0,
     exchangeErr |-> FALSE, fetchErr |-> FALSE,
     decodeErr |-> FALSE, existsErr |-> FALSE, insertErr |-> FALSE,
     present |-> FALSE, inserted |-> FALSE]

\* w.WriteHeader: the first status written is the one the client gets.
WriteHeader(status, code) == IF status = 0 THEN code ELSE status

\* quickErr(w, err)
quickErr(status) == WriteHeader(status, StatusInternalServerError)

\* The handler returned: net/http answers 200 when nothing was written.
Returned(status) == WriteHeader(status, StatusOK)

\* GET /login: redirect to the provider with state=randomstate.
Login ==
    /\ logins < MaxLogins
    /\ logins' = logins + 1
    /\ UNCHANGED <<accountVars, discord_user, cb, accepted>>

CallbackStateCheck_NoReturn(c) ==
    /\ cb[c].pc = "idle"
    /\ \E st \in StateParams :
        /\ cb' = [cb EXCEPT ![c] =
                [@ EXCEPT !.pc = "exchange", !.state = st,
                          !.status = IF st # LoginState
                                     THEN WriteHeader(@, StatusBadRequest)
                                     ELSE @]]
        /\ accepted' = IF st # LoginState THEN accepted ELSE accepted + 1
    /\ UNCHANGED <<accountVars, discord_user, logins>>

\* handleAuthCallback, lines 121-125: the request arrives and its state
\* parameter is compared with the constant.
CallbackStateCheck(c) ==
    /\ cb[c].pc = "idle"
    /\ \E st \in StateParams :
        IF st # LoginState
        THEN /\ cb' = [cb EXCEPT ![c] =
                    [@ EXCEPT !.pc = "done", !.state = st,
                              !.status = WriteHeader(@, StatusBadRequest)]]
             /\ accepted' = accepted
        ELSE /\ cb' = [cb EXCEPT ![c] =
                    [@ EXCEPT !.pc = "exchange", !.state = st]]
             /\ accepted' = accepted + 1
    /\ UNCHANGED <<accountVars, discord_user, logins>>

CallbackExchange_NoReturn(c) ==
    /\ cb[c].pc = "exchange"
    /\ \E ok \in BOOLEAN :
        cb' = [cb EXCEPT ![c] =
            IF ok
            THEN [@ EXCEPT !.pc = "fetch", !.providerCalls = @ + 1]
            ELSE [@ EXCEPT !.pc = "fetch", !.providerCalls = @ + 1,
                           !.exchangeErr = TRUE,
                           !.status = quickErr(@)]]
    /\ UNCHANGED <<accountVars, discord_user, logins, accepted>>

\* lines 127-131: s.auth.Exchange
CallbackExchange(c) ==
    /\ cb[c].pc = "exchange"
    /\ \E ok \in BOOLEAN :
        cb' = [cb EXCEPT ![c] =
            IF ok
            THEN [@ EXCEPT !.pc = "fetch", !.providerCalls = @ + 1]
            ELSE [@ EXCEPT !.pc = "done", !.providerCalls = @ + 1,
                           !.exchangeErr = TRUE,
                           !.status = quickErr(@)]]
    /\ UNCHANGED <<accountVars, discord_user, logins, accepted>>

\* lines 133-149: fetch the profile and decode it. The condition after
\* Decode tests err of the Get, which is nil here: the error Decode returns
\* is dropped and the handler goes on with whatever was decoded.
CallbackFetchProfile(c) ==
    /\ cb[c].pc = "fetch"
    /\ \/ \E failure \in {"transport", "status"} :
            cb' = [cb EXCEPT ![c] =
                [@ EXCEPT !.pc = "done", !.providerCalls = @ + 1,
                          !.fetchErr = TRUE,
                          !.status = WriteHeader(@, StatusInternalServerError)]]
       \/ \E payload \in ProfilePayloads :
            LET d == Decode(payload)
                getErr == FALSE
            IN cb' = [cb EXCEPT ![c] =
                IF getErr
                THEN [@ EXCEPT !.pc = "done", !.providerCalls = @ + 1,
                               !.status = quickErr(@)]
                ELSE [@ EXCEPT !.pc = "exists", !.providerCalls = @ + 1,
                               !.user = d.user, !.decodeErr = d.err]]
    /\ UNCHANGED <<accountVars, discord_user, logins, accepted>>

\* lines 151-156 and 159: the existence check. On an error quickErr writes
\* the 500 but the handler does not return: it goes on to `if !exists`.
\* When the row exists the handler returns.
CallbackExists(c) ==
    /\ cb[c].pc = "exists"
    /\ \E scanErr \in BOOLEAN :
        LET e == DiscordUserExists(cb[c].user.Id, scanErr)
            status == IF e.err THEN quickErr(cb[c].status) ELSE cb[c].status
        IN cb' = [cb EXCEPT ![c] =
            [@ EXCEPT !.storeOps = @ + 1,
                      !.exists = e.exists,
                      !.existsErr = e.err,
                      !.present = RowsWithId(cb[c].user.Id) > 0,
                      !.status = IF e.exists THEN Returned(status) ELSE status,
                      !.pc = IF e.exists THEN "done" ELSE "insert"]]
    /\ UNCHANGED <<accountVars, discord_user, logins, accepted>>

CallbackInsert_ReportsError(c) ==
    /\ cb[c].pc = "insert"
    /\ \E dbOk \in BOOLEAN :
        LET i == CreateDiscordUser(cb[c].user, dbOk) IN
        /\ discord_user' = i.table
        /\ cb' = [cb EXCEPT ![c] =
                [@ EXCEPT !.pc = "done", !.storeOps = @ + 1,
                          !.insertErr = i.err, !.inserted = ~i.err,
                          !.status = IF i.err THEN quickErr(@)
                                     ELSE Returned(@)]]
    /\ UNCHANGED <<accountVars, logins, accepted>>

\* lines 157-159: s.store.CreateDiscordUser, its error ignored, and the
\* handler returns.
CallbackInsert(c) ==
    /\ cb[c].pc = "insert"
    /\ \E dbOk \in BOOLEAN :
        LET i == CreateDiscordUser(cb[c].user, dbOk) IN
        /\ discord_user' = i.table
        /\ cb' = [cb EXCEPT ![c] =
                [@ EXCEPT !.pc = "done", !.storeOps = @ + 1,
                          !.insertErr = i.err, !.inserted = ~i.err,
                          !.status = Returned(@)]]
    /\ UNCHANGED <<accountVars, logins, accepted>>

handleAuthCallback(c) ==
    \/ CallbackStateCheck(c)
    \/ CallbackExchange(c)
    \/ CallbackFetchProfile(c)
    \/ CallbackExists(c)
    \/ CallbackInsert(c)

InitOAuth ==
    /\ discord_user = EmptyBag
    /\ cb = [c \in Slots |-> IdleCallback]
    /\ logins = 0
    /\ accepted = 0

-----------------------------------------------------------------------------
Init == InitAccounts /\ InitOAuth

NextAccounts ==
    \/ handleCreateAccount
    \/ handleGetAllAccounts
    \/ handleTransfer
    \/ StoreUpdateAccount
    \/ RequestArrives
    \/ OneAccountRequest
    \/ RequestDone

NextOAuth == Login \/ \E c \in Slots : handleAuthCallback(c)

Next == NextAccounts \/ NextOAuth

\* The account routes alone, the OAuth routes alone, and the whole server.
SpecAccounts == Init /\ [][NextAccounts]_vars
SpecOAuth == Init /\ [][NextOAuth]_vars
Spec == Init /\ [][Next]_vars

-----------------------------------------------------------------------------
\* Properties of the Access Gate and the Token Service (SpecAccounts).

Verified(tokenStr) == ~validateJwt(tokenStr).err

\* The key and the algorithm a token's signature was made with.
SignedWithKey(tokenStr) == tokenStr.sig[2]
SignedWithAlg(tokenStr) == tokenStr.sig[1]

\* C1: a request to the protected route whose x-jwt-token is absent or does
\* not verify is answered 403, its handler is not run and the account table
\* is left as it was; the handler runs only for a token that verifies.
C1_GateRejectsUnverified ==
    [][(req.pc = "received" /\ req'.pc = "answered")
        => /\ (~Verified(req.token)
                => /\ req'.status = StatusForbidden
                   /\ ~req'.handlerRan
                   /\ account' = account)
           /\ (req'.handlerRan => Verified(req.token))]_vars

\* C1 witness: a DELETE of an existing account with a token signed with
\* another secret was answered 403 and the account is still there.
C1_Witness ==
    /\ req.pc = "answered"
    /\ req.token.parts = 3
    /\ req.token.alg = "HS256"
    /\ SignedWithKey(req.token) # JWT_SECRET
    /\ req.method = "DELETE"
    /\ \E r \in account : FormatInt(r.ID) = req.id
    /\ req.status = StatusForbidden
    /\ ~req.handlerRan

\* C2: the token minted for a created account verifies under the process
\* secret, and its accountNumber claim is the account number of the row the
\* store returned.
C2_VerifyMintRoundTrip ==
    created.status = StatusOK =>
        /\ Verified(created.minted)
        /\ validateJwt(created.minted).accountNumber = created.body.json.Number

\* C2 witness: an account was created whose number differs from its id, and
\* its token was printed.
C2_Witness ==
    /\ created.status = StatusOK
    /\ created.body.json \in account
    /\ created.body.json.Number # created.body.json.ID
    /\ created.minted \in stdout

\* C3: a token that was signed with a secret other than the process secret,
\* or with an algorithm outside the HMAC family, never verifies; the gate
\* answers it 403.
C3_ForeignTokensFail ==
    (req.pc # "idle" /\ req.token.parts = 3
        /\ (SignedWithKey(req.token) # JWT_SECRET
            \/ SignedWithAlg(req.token) \notin SigningMethodHMAC))
    => /\ validateJwt(req.token).err
       /\ (req.pc = "answered" => req.status = StatusForbidden)

\* C3 witness: an RS256 token was presented and refused.
C3_Witness ==
    /\ req.pc = "answered"
    /\ req.token.alg = "RS256"
    /\ req.status = StatusForbidden

\* C8: the response of a successful account creation carries the created
\* account, with a non-zero account number, and the token minted for it.
C8_CreateReturnsToken ==
    created.status = StatusOK =>
        /\ created.body.json.Number # 0
        /\ "token" \in DOMAIN created.body
        /\ created.body.token = created.minted

\* C9: for a token that verifies, the gate runs the wrapped handler whatever
\* account the path names.
C9_GateAuthenticatesOnly ==
    (req.pc = "answered" /\ Verified(req.token)) => req.handlerRan

\* C9 witness: a token the server minted for one account number fetched an
\* account that has another number.
C9_Witness ==
    /\ req.pc = "answered"
    /\ req.token \in stdout
    /\ req.method = "GET"
    /\ \E r \in account :
        /\ FormatInt(r.ID) = req.id
        /\ r.Number # validateJwt(req.token).accountNumber
        /\ req.body = [json |-> {r}]
    /\ req.handlerRan
    /\ req.status = StatusOK

\* A token whose expiresAt claim lies before the clock reading.
Expired(tokenStr, now) ==
    tokenStr.parts = 3 /\ ParseDigits(tokenStr.claims.expiresAt) < now

\* C11: a request to the protected route that carries an expired token is
\* answered 403 and its handler is not run.
C11_ExpiredTokenRejected ==
    (req.pc = "answered" /\ Expired(req.token, req.now))
    => (req.status = StatusForbidden /\ ~req.handlerRan)

\* C12: whatever makes verification fail (no header, a malformed value, a
\* foreign algorithm, a bad signature), the gate's response is the same:
\* status 403 with the body {"Error": "invalid token"}.
C12_FailuresIndistinguishable ==
    (req.pc = "answered" /\ ~Verified(req.token))
    => (req.status = StatusForbidden /\ req.body = [json |-> ApiError])

\* C12 witness: a token whose claims were altered after it was signed with
\* the process secret got the same 403 body as any other failure.
C12_Witness ==
    /\ req.pc = "answered"
    /\ req.token.parts = 3
    /\ SignedWithKey(req.token) = JWT_SECRET
    /\ req.token.sig[3] # req.token.claims
    /\ req.status = StatusForbidden
    /\ req.body = [json |-> ApiError]

C17_TokensNeverRevoked ==
    /\ \A t \in stdout : Verified(t)
    /\ (req.pc = "answered" /\ req.token \in stdout)
        => (req.handlerRan /\ req.status # StatusForbidden)

\* C17 witness: the token of an account that has since been deleted, and
\* whose expiry has passed, was accepted by the gate.
C17_Witness ==
    /\ req.pc = "answered"
    /\ req.token \in stdout
    /\ req.token = created.minted
    /\ created.body.json \notin account
    /\ ~\E r \in account : r.Number = validateJwt(req.token).accountNumber
    /\ req.handlerRan

\* C18: a stored account never changes; a row leaves the table only through
\* a DELETE of its id that passed the gate, and a row enters it only as the
\* account a successful POST /account returned.
C18_AccountsImmutable ==
    [][/\ \A r \in account, r2 \in account' : r.ID = r2.ID => r2 = r
       /\ \A r \in account \ account' :
            /\ req.pc = "received" /\ req'.pc = "answered"
            /\ req.method = "DELETE"
            /\ req.id = FormatInt(r.ID)
            /\ req'.handlerRan
       /\ \A r \in account' \ account :
            /\ created'.status = StatusOK
            /\ created'.body.json = r
            /\ r.ID = account_id_seq + 1]_vars

\* C18 witness: account 1 was deleted through the gate and account 2 is
\* stored as it was created.
C18_Witness ==
    /\ req.pc = "answered"
    /\ req.method = "DELETE"
    /\ req.id = FormatInt(1)
    /\ req.status = StatusOK
    /\ created.status = StatusOK
    /\ account = {created.body.json}
    /\ created.body.json.ID = 2

-----------------------------------------------------------------------------
\* Properties of the OAuth Linking Flow (SpecOAuth).

\* C4: when two callbacks for the same identifier both found it absent, both
\* finished and no store call failed, exactly one row carries that
\* identifier.
C4_OneRowPerIdentifier ==
    \A c1, c2 \in Slots :
        (/\ c1 # c2
         /\ cb[c1].pc = "done" /\ cb[c2].pc = "done"
         /\ cb[c1].storeOps = 2 /\ cb[c2].storeOps = 2
         /\ cb[c1].user.Id = cb[c2].user.Id
         /\ ~cb[c1].decodeErr /\ ~cb[c2].decodeErr
         /\ ~cb[c1].existsErr /\ ~cb[c2].existsErr
         /\ ~cb[c1].insertErr /\ ~cb[c2].insertErr)
        => RowsWithId(cb[c1].user.Id) = 1

\* C5: a callback whose state parameter is not the expected one is answered
\* 400 at once, with no provider call and no store operation.
C5_StateMismatchRejected ==
    \A c \in Slots :
        (cb[c].pc # "idle" /\ cb[c].state # LoginState)
        => /\ cb[c].pc = "done"
           /\ cb[c].status = StatusBadRequest
           /\ cb[c].providerCalls = 0
           /\ cb[c].storeOps = 0
           /\ ~cb[c].inserted

\* C5 witness: a callback with a forged state was refused while another
\* callback went on to the provider.
C5_Witness ==
    \E c, d \in Slots :
        /\ cb[c].pc = "done"
        /\ cb[c].state = "forged"
        /\ cb[c].status = StatusBadRequest
        /\ cb[d].providerCalls = 2

\* C6: a callback that ended with an error response has added no row.
C6_NoInsertAfterError ==
    \A c \in Slots :
        (cb[c].pc = "done" /\ cb[c].status # StatusOK) => ~cb[c].inserted

\* C7: a callback whose profile payload did not decode ends with a 500 and
\* performs no store operation.
C7_DecodeErrorStops ==
    \A c \in Slots :
        cb[c].decodeErr
        => /\ cb[c].pc = "done"
           /\ cb[c].status = StatusInternalServerError
           /\ cb[c].storeOps = 0

\* C10: every callback whose state was accepted used up a state value issued
\* by an earlier /login, so no more callbacks are accepted than logins were
\* served.
C10_StateSingleUse == accepted <= logins

\* C13: an insert that the store refuses (as it would a duplicate of an
\* identifier inserted meanwhile) is not reported: a callback whose
\* existence check succeeded still ends with the normal response.
C13_InsertFailureSwallowed ==
    \A c \in Slots :
        (cb[c].pc = "done" /\ cb[c].insertErr /\ ~cb[c].existsErr)
        => cb[c].status = StatusOK

\* C13 witness: a callback found its identifier absent, another callback
\* inserted it meanwhile, the first one's insert was refused and it ended 200.
C13_Witness ==
    \E c \in Slots :
        /\ cb[c].pc = "done"
        /\ ~cb[c].decodeErr /\ ~cb[c].existsErr /\ ~cb[c].present
        /\ cb[c].insertErr
        /\ RowsWithId(cb[c].user.Id) = 1
        /\ cb[c].status = StatusOK

\* C15: a failed code exchange ends the callback with a 500 after one
\* provider call and no store operation; a failed profile fetch ends it with
\* a 500 after two provider calls and no store operation.
C15_StopsAtFirstFailure ==
    \A c \in Slots :
        /\ cb[c].exchangeErr
            => /\ cb[c].pc = "done"
               /\ cb[c].status = StatusInternalServerError
               /\ cb[c].providerCalls = 1
               /\ cb[c].storeOps = 0
               /\ ~cb[c].inserted
        /\ cb[c].fetchErr
            => /\ cb[c].pc = "done"
               /\ cb[c].status = StatusInternalServerError
               /\ cb[c].providerCalls = 2
               /\ cb[c].storeOps = 0
               /\ ~cb[c].inserted

\* C15 witness: one callback failed at the exchange and another at the
\* profile fetch.
C15_Witness ==
    \E c, d \in Slots :
        /\ cb[c].exchangeErr /\ cb[c].pc = "done"
        /\ cb[d].fetchErr /\ cb[d].pc = "done"

\* C16: a callback whose identifier had a row when its existence check ran
\* performs no insert.
C16_ExistingNotInserted ==
    \A c \in Slots :
        cb[c].present => (cb[c].storeOps = 1 /\ ~cb[c].inserted)

\* C19: after a callback that matched the state, fetched and decoded the
\* profile and ended without an error response, a row with the profile's
\* identifier exists.
C19_CompletedIsLinked ==
    \A c \in Slots :
        (/\ cb[c].pc = "done"
         /\ cb[c].state = LoginState
         /\ ~cb[c].decodeErr
         /\ cb[c].status = StatusOK)
        => RowsWithId(cb[c].user.Id) >= 1

====
